---- MODULE Spec2Model ----
(***************************************************************************)
(* Model of pkg/encryption/cipher.go: the Cipher interface, DefaultCipher, *)
(* Base64Cipher, CFBCipher, GCMCipher and the shared helper into().        *)
(*                                                                         *)
(* Byte slices are sequences of 0..255.  A Go call is modelled by an       *)
(* operator returning a record:                                            *)
(*    st      "ok" (err == nil), "error" (err != nil) or "panic"           *)
(*    err     the class of the returned error, "none" when there is none   *)
(*    out     the returned bytes (<<>> for nil)                            *)
(*    hasOut  FALSE when the returned slice is nil                         *)
(*    inAfter the bytes of the caller's input buffer after the call        *)
(*    shared  TRUE when out is a slice of the input buffer's storage       *)
(*    calls   the Encrypt/Decrypt methods that ran, in order               *)
(*    rnd     the number of reads of crypto/rand.Reader                    *)
(*                                                                         *)
(* crypto/aes, crypto/cipher and encoding/base64 are library code: the     *)
(* block cipher is a small keyed permutation of 16-byte blocks, CFB and    *)
(* base64 are computed as the library computes them, and the AEAD is       *)
(* counter mode plus a keyed chained hash masked with the encrypted first  *)
(* counter block.                                                          *)
(***************************************************************************)
EXTENDS Integers, Sequences, FiniteSets, TLC

\* ------------------------------------------------------------------ bounds
\* enumerated plaintexts have at most MaxLen bytes (plus the fixed samples)
MaxLen == 1
\* the random source returns one of the byte patterns 0..MaxSeed
MaxSeed == 1
\* the construction runs try the secrets of 0..MaxSecretLen bytes
MaxSecretLen == 33

\* ------------------------------------------------------- program constants
\* aes.BlockSize
BlockSize == 16
\* gcm.NonceSize(), the standard nonce size of cipher.NewGCM
NonceSize == 12
\* the standard tag size of cipher.NewGCM
TagSize == 16
\* bits of a byte
ByteBits == 8
\* number of byte values
ByteMod == 256

\* ------------------------------------------------------------------- bytes
Min(a, b) == IF a < b THEN a ELSE b

RECURSIVE XorN(_, _, _)
XorN(a, b, n) ==
    IF n = 0 THEN 0
    ELSE ((a + b) % 2) + 2 * XorN(a \div 2, b \div 2, n - 1)

\* a ^ b on bytes, tabulated once
XorTable == [a \in 0..(ByteMod - 1) |-> [b \in 0..(ByteMod - 1) |-> XorN(a, b, ByteBits)]]

Xor(a, b) == XorTable[a][b]

\* subtle.XORBytes over the shorter of the two lengths
XorBytes(x, y) == [i \in 1..Min(Len(x), Len(y)) |-> Xor(x[i], y[i])]

RECURSIVE Pow2(_)
Pow2(n) == IF n = 0 THEN 1 ELSE 2 * Pow2(n - 1)

Zeros(n) == [i \in 1..n |-> 0]

Tail0(s, n) == SubSeq(s, n + 1, Len(s))

\* ------------------------------------------------------------ block cipher
\* aes.NewCipher: the key sizes of AES-128, AES-192 and AES-256
KeySizes == {16, 24, 32}

ValidKey(secret) == Len(secret) \in KeySizes

\* byte i of the key schedule material: every key byte takes part
KeyByte(key, i) ==
    (key[i] + key[Len(key) - i + 1] + 7 * i) % ByteMod

\* the sum of the bytes i..Len(b) of b
RECURSIVE SumFrom(_, _)
SumFrom(b, i) == IF i > Len(b) THEN 0 ELSE b[i] + SumFrom(b, i + 1)

\* Block.Encrypt: a keyed permutation of BlockSize-byte blocks.  The first
\* byte of the output mixes every byte of the input, and the other bytes
\* mix their own input byte with it.
BlockEncrypt(key, b) ==
    LET y1 == (SumFrom(b, 1) + KeyByte(key, 1)) % ByteMod
    IN  [i \in 1..BlockSize |->
            IF i = 1 THEN y1 ELSE (b[i] + y1 + KeyByte(key, i)) % ByteMod]

\* ---------------------------------------------------------------- CFB mode
\* number of blocks that hold n bytes
Blocks(n) == (n + BlockSize - 1) \div BlockSize

\* block number j (from 0) of x, short when x ends inside it
BlockOf(x, j) == SubSeq(x, j * BlockSize + 1, Min(Len(x), (j + 1) * BlockSize))

\* cipher.NewCFBEncrypter(block, iv).XORKeyStream(dst, src): each keystream
\* block is the encryption of the previous ciphertext block (the IV first).
\* CFBEncryptBlocks is the ciphertext of the first j blocks of src.
RECURSIVE CFBEncryptBlocks(_, _, _, _)
CFBEncryptBlocks(key, iv, src, j) ==
    IF j = 0 THEN <<>>
    ELSE LET done == CFBEncryptBlocks(key, iv, src, j - 1)
             prev == IF j = 1 THEN iv ELSE BlockOf(done, j - 2)
         IN  done \o XorBytes(BlockOf(src, j - 1), BlockEncrypt(key, prev))

CFBEncryptStream(key, iv, src) == CFBEncryptBlocks(key, iv, src, Blocks(Len(src)))

\* the stream of cipher.NewCFBEncrypter where the decrypter is meant
CFBDecryptStreamAsEncrypter(key, iv, src) == CFBEncryptStream(key, iv, src)

\* cipher.NewCFBDecrypter(block, iv).XORKeyStream(dst, src): the keystream
\* blocks come from the IV and the ciphertext itself
CFBDecryptStream(key, iv, src) ==
    LET ks == [j \in 0..(Blocks(Len(src)) - 1) |->
                  BlockEncrypt(key, IF j = 0 THEN iv ELSE BlockOf(src, j - 1))]
    IN  [i \in 1..Len(src) |->
            Xor(src[i], ks[(i - 1) \div BlockSize][((i - 1) % BlockSize) + 1])]

\* ---------------------------------------------------------------- GCM mode
\* the counter block nonce || be32(ctr)
CounterBlock(nonce, ctr) ==
    nonce \o <<(ctr \div 16777216) % ByteMod, (ctr \div 65536) % ByteMod,
               (ctr \div 256) % ByteMod, ctr % ByteMod>>

\* counter mode from counter ctr on
CTRStream(key, nonce, ctr, src) ==
    LET ks == [j \in 0..(Blocks(Len(src)) - 1) |->
                  BlockEncrypt(key, CounterBlock(nonce, ctr + j))]
    IN  [i \in 1..Len(src) |->
            Xor(src[i], ks[(i - 1) \div BlockSize][((i - 1) % BlockSize) + 1])]

\* block number j of x, zero padded
PaddedBlock(x, j) ==
    [i \in 1..BlockSize |->
        IF j * BlockSize + i <= Len(x) THEN x[j * BlockSize + i] ELSE 0]

\* the keyed hash of the sealed body: its first j blocks, zero padded,
\* chained through the block cipher
RECURSIVE HashBlocks(_, _, _)
HashBlocks(key, data, j) ==
    IF j = 0 THEN Zeros(BlockSize)
    ELSE BlockEncrypt(key, XorBytes(HashBlocks(key, data, j - 1),
                                    PaddedBlock(data, j - 1)))

\* the block of the length of the body in bits
LengthBlock(n) ==
    Zeros(BlockSize - 2) \o <<((8 * n) \div 256) % ByteMod, (8 * n) % ByteMod>>

\* the tag: the hash of body and length, masked with the first counter block
GCMTag(key, nonce, body) ==
    LET y == HashBlocks(key, body, Blocks(Len(body)))
        s == BlockEncrypt(key, XorBytes(y, LengthBlock(Len(body))))
    IN  SubSeq(XorBytes(s, BlockEncrypt(key, CounterBlock(nonce, 1))), 1, TagSize)

\* gcm.Seal(dst, nonce, plaintext, nil): dst || body || tag
GCMSeal(key, dst, nonce, plaintext) ==
    LET body == CTRStream(key, nonce, 2, plaintext)
    IN  dst \o body \o GCMTag(key, nonce, body)

\* gcm.Open(nil, nonce, ciphertext, nil): errOpen when the input is shorter
\* than the tag or the tag does not verify
GCMOpen(key, nonce, ciphertext) ==
    IF Len(ciphertext) < TagSize THEN [ok |-> FALSE, out |-> <<>>]
    ELSE LET n    == Len(ciphertext) - TagSize
             body == SubSeq(ciphertext, 1, n)
             tag  == Tail0(ciphertext, n)
         IN  IF tag # GCMTag(key, nonce, body)
             THEN [ok |-> FALSE, out |-> <<>>]
             ELSE [ok |-> TRUE, out |-> CTRStream(key, nonce, 2, body)]

\* ------------------------------------------------------------------ base64
\* the padding character '=' of base64.StdEncoding
PadChar == 61
\* '\n' and '\r', which the decoder skips
NewLine == 10
CarriageReturn == 13
\* decodeMap's entry for a byte outside the alphabet
Invalid == 255

\* the alphabet of base64.StdEncoding: A-Z a-z 0-9 + /
EncodeChar(v) ==
    IF v < 26 THEN 65 + v
    ELSE IF v < 52 THEN 97 + (v - 26)
    ELSE IF v < 62 THEN 48 + (v - 52)
    ELSE IF v = 62 THEN 43 ELSE 47

\* the decode map of base64.StdEncoding
DecodeChar(c) ==
    IF c >= 65 /\ c <= 90 THEN c - 65
    ELSE IF c >= 97 /\ c <= 122 THEN c - 97 + 26
    ELSE IF c >= 48 /\ c <= 57 THEN c - 48 + 52
    ELSE IF c = 43 THEN 62
    ELSE IF c = 47 THEN 63
    ELSE Invalid

\* base64.StdEncoding.EncodeToString: three bytes make four characters, and
\* the last group is padded
StdEncode(src) ==
    LET n == Len(src)
        byte(i) == IF i <= n THEN src[i] ELSE 0
        val(g) == byte(3 * g + 1) * 65536 + byte(3 * g + 2) * 256 + byte(3 * g + 3)
    IN  [j \in 1..(4 * ((n + 2) \div 3)) |->
            LET g == (j - 1) \div 4
                k == (j - 1) % 4
            IN  IF k = 0 THEN EncodeChar((val(g) \div 262144) % 64)
                ELSE IF k = 1 THEN EncodeChar((val(g) \div 4096) % 64)
                ELSE IF k = 2 THEN (IF 3 * g + 2 > n THEN PadChar
                                    ELSE EncodeChar((val(g) \div 64) % 64))
                ELSE (IF 3 * g + 3 > n THEN PadChar ELSE EncodeChar(val(g) % 64))]

\* the decoder skips '\r' and '\n' wherever they stand
SkipNewlines(src) == SelectSeq(src, LAMBDA c : c # NewLine /\ c # CarriageReturn)

\* the number of characters of quantum g (from 0) of text that carry data:
\* 4, or 2 or 3 before the padding that ends the input, or 0 when corrupt
QuantumLen(text, g) ==
    LET q(k) == text[4 * g + k]
        d(k) == DecodeChar(q(k))
        final == 4 * g + 4 = Len(text)
    IN  IF d(1) = Invalid \/ d(2) = Invalid THEN 0
        ELSE IF d(3) = Invalid
             THEN (IF final /\ q(3) = PadChar /\ q(4) = PadChar THEN 2 ELSE 0)
        ELSE IF d(4) = Invalid
             THEN (IF final /\ q(4) = PadChar THEN 3 ELSE 0)
        ELSE 4

\* base64.StdEncoding.DecodeString: ok is FALSE for a CorruptInputError
StdDecode(src) ==
    LET text == SkipNewlines(src)
        n == Len(text)
        quanta == n \div 4
        d(i) == IF DecodeChar(text[i]) = Invalid THEN 0 ELSE DecodeChar(text[i])
        val(g) == d(4 * g + 1) * 262144 + d(4 * g + 2) * 4096
                  + d(4 * g + 3) * 64 + d(4 * g + 4)
        outLen == IF n = 0 THEN 0 ELSE 3 * (quanta - 1) + QuantumLen(text, quanta - 1) - 1
    IN  IF n % 4 # 0 \/ \E g \in 0..(quanta - 1) : QuantumLen(text, g) = 0
        THEN [ok |-> FALSE, out |-> <<>>]
        ELSE [ok |-> TRUE,
              out |-> [i \in 1..outLen |->
                          LET g == (i - 1) \div 3
                              k == (i - 1) % 3
                          IN  IF k = 0 THEN (val(g) \div 65536) % ByteMod
                              ELSE IF k = 1 THEN (val(g) \div 256) % ByteMod
                              ELSE val(g) % ByteMod]]

\* ------------------------------------------------------------ call results
Result(st, err, out, hasOut, inAfter, shared, calls, rnd) ==
    [st |-> st, err |-> err, out |-> out, hasOut |-> hasOut,
     inAfter |-> inAfter, shared |-> shared, calls |-> calls, rnd |-> rnd]

\* return nil, err
Fail(err, input, calls, rnd) ==
    Result("error", err, <<>>, FALSE, input, FALSE, calls, rnd)

\* a run-time panic: nothing is returned
Panic(input, calls, rnd) ==
    Result("panic", "none", <<>>, FALSE, input, FALSE, calls, rnd)

NoResult == Result("none", "none", <<>>, FALSE, <<>>, FALSE, <<>>, 0)

\* io.ReadFull(rand.Reader, b): n bytes of the source, or its error
ReadFull(rand, n) ==
    [ok |-> rand.ok, bytes |-> IF rand.ok THEN SubSeq(rand.bytes, 1, n) ELSE <<>>]

\* -------------------------------------------------------------- instances
Instance(kind, key, inner) == [kind |-> kind, key |-> key, inner |-> inner]

NoInstance == Instance("none", <<>>, "none")

\* the Cipher field of a Base64Cipher
InnerCipher(c) == Instance(c.inner, c.key, "none")

\* ---------------------------------------------------------- DefaultCipher
\* the returned slice is the argument itself
DefaultEncrypt(value) ==
    Result("ok", "none", value, TRUE, value, Len(value) > 0,
           <<"DefaultCipher.Encrypt">>, 0)

DefaultDecrypt(ciphertext) ==
    Result("ok", "none", ciphertext, TRUE, ciphertext, Len(ciphertext) > 0,
           <<"DefaultCipher.Decrypt">>, 0)

\* -------------------------------------------------------------- CFBCipher
CFBEncrypt(c, value, rand) ==
    LET r == ReadFull(rand, BlockSize)
    IN  IF ~r.ok
        THEN Fail("EntropyError", value, <<"CFBCipher.Encrypt">>, 1)
        ELSE Result("ok", "none", r.bytes \o CFBEncryptStream(c.key, r.bytes, value),
                    TRUE, value, FALSE, <<"CFBCipher.Encrypt">>, 1)

\* CFBCipher.Decrypt with the length check off by one (<= for <)
CFBDecryptOffByOne(c, ciphertext) ==
    IF Len(ciphertext) <= BlockSize
    THEN Fail("MalformedCiphertextError", ciphertext, <<"CFBCipher.Decrypt">>, 0)
    ELSE LET iv   == SubSeq(ciphertext, 1, BlockSize)
             body == Tail0(ciphertext, BlockSize)
             p    == CFBDecryptStream(c.key, iv, body)
         IN  Result("ok", "none", p, TRUE, iv \o p, Len(p) > 0,
                    <<"CFBCipher.Decrypt">>, 0)

\* the stream is applied in place: the returned slice is the tail of the
\* caller's buffer, which now holds the plaintext
CFBDecrypt(c, ciphertext) ==
    IF Len(ciphertext) < BlockSize
    THEN Fail("MalformedCiphertextError", ciphertext, <<"CFBCipher.Decrypt">>, 0)
    ELSE LET iv   == SubSeq(ciphertext, 1, BlockSize)
             body == Tail0(ciphertext, BlockSize)
             p    == CFBDecryptStream(c.key, iv, body)
         IN  Result("ok", "none", p, TRUE, iv \o p, Len(p) > 0,
                    <<"CFBCipher.Decrypt">>, 0)

\* -------------------------------------------------------------- GCMCipher
\* GCMCipher.Encrypt sealing into a nil destination: the nonce is not
\* prepended
GCMEncryptWithoutNonce(c, value, rand) ==
    LET r == ReadFull(rand, NonceSize)
    IN  IF ~r.ok
        THEN Fail("EntropyError", value, <<"GCMCipher.Encrypt">>, 1)
        ELSE Result("ok", "none", GCMSeal(c.key, <<>>, r.bytes, value),
                    TRUE, value, FALSE, <<"GCMCipher.Encrypt">>, 1)

\* cipher.NewGCM fails only for a block size other than 16, which an AES
\* block never has
GCMEncrypt(c, value, rand) ==
    LET r == ReadFull(rand, NonceSize)
    IN  IF ~r.ok
        THEN Fail("EntropyError", value, <<"GCMCipher.Encrypt">>, 1)
        ELSE Result("ok", "none", GCMSeal(c.key, r.bytes, r.bytes, value),
                    TRUE, value, FALSE, <<"GCMCipher.Encrypt">>, 1)

\* GCMCipher.Decrypt dropping the error of gcm.Open
GCMDecryptIgnoringOpenError(c, ciphertext) ==
    IF Len(ciphertext) < NonceSize
    THEN Panic(ciphertext, <<"GCMCipher.Decrypt">>, 0)
    ELSE LET nonce == SubSeq(ciphertext, 1, NonceSize)
             o     == GCMOpen(c.key, nonce, Tail0(ciphertext, NonceSize))
         IN  Result("ok", "none", o.out, o.ok, ciphertext, FALSE,
                    <<"GCMCipher.Decrypt">>, 0)

\* ciphertext[nonceSize:] of a shorter slice panics: slice bounds out of range
GCMDecrypt(c, ciphertext) ==
    IF Len(ciphertext) < NonceSize
    THEN Panic(ciphertext, <<"GCMCipher.Decrypt">>, 0)
    ELSE LET nonce == SubSeq(ciphertext, 1, NonceSize)
             o     == GCMOpen(c.key, nonce, Tail0(ciphertext, NonceSize))
         IN  IF ~o.ok
             THEN Fail("AuthenticationError", ciphertext, <<"GCMCipher.Decrypt">>, 0)
             ELSE Result("ok", "none", o.out, TRUE, ciphertext, FALSE,
                         <<"GCMCipher.Decrypt">>, 0)

\* ----------------------------------------------------------- Base64Cipher
\* c.Cipher.Encrypt / c.Cipher.Decrypt: a call through the Cipher interface
InnerEncrypt(c, value, rand) ==
    CASE c.kind = "CFB" -> CFBEncrypt(c, value, rand)
      [] c.kind = "GCM" -> GCMEncrypt(c, value, rand)
      [] OTHER          -> DefaultEncrypt(value)

InnerDecrypt(c, ciphertext) ==
    CASE c.kind = "CFB" -> CFBDecrypt(c, ciphertext)
      [] c.kind = "GCM" -> GCMDecrypt(c, ciphertext)
      [] OTHER          -> DefaultDecrypt(ciphertext)

Base64Encrypt(c, value, rand) ==
    LET r     == InnerEncrypt(InnerCipher(c), value, rand)
        calls == <<"Base64Cipher.Encrypt">> \o r.calls
    IN  IF r.st = "ok"
        THEN Result("ok", "none", StdEncode(r.out), TRUE, r.inAfter, FALSE, calls, r.rnd)
        ELSE Result(r.st, r.err, <<>>, FALSE, r.inAfter, FALSE, calls, r.rnd)

\* Base64Cipher.Decrypt dropping the error of DecodeString
Base64DecryptIgnoringDecodeError(c, ciphertext) ==
    LET d == StdDecode(ciphertext)
        r == InnerDecrypt(InnerCipher(c), d.out)
    IN  Result(r.st, r.err, r.out, r.hasOut, ciphertext, FALSE,
               <<"Base64Cipher.Decrypt">> \o r.calls, r.rnd)

\* the inner cipher works on the decoded bytes, a buffer of this call
Base64Decrypt(c, ciphertext) ==
    LET d == StdDecode(ciphertext)
    IN  IF ~d.ok
        THEN Fail("MalformedCiphertextError", ciphertext, <<"Base64Cipher.Decrypt">>, 0)
        ELSE LET r == InnerDecrypt(InnerCipher(c), d.out)
             IN  Result(r.st, r.err, r.out, r.hasOut, ciphertext, FALSE,
                        <<"Base64Cipher.Decrypt">> \o r.calls, r.rnd)

\* ------------------------------------------------------- Cipher interface
Encrypt(c, value, rand) ==
    IF c.kind = "Base64" THEN Base64Encrypt(c, value, rand)
    ELSE InnerEncrypt(c, value, rand)

Decrypt(c, ciphertext) ==
    IF c.kind = "Base64" THEN Base64Decrypt(c, ciphertext)
    ELSE InnerDecrypt(c, ciphertext)

\* ------------------------------------------------------------------ into
\* a *string: nil, or a pointer to the string val
Field(isNil, val) == [isNil |-> isNil, val |-> val]

NilField == Field(TRUE, <<>>)

IntoResult(st, err, field, calls, rnd) ==
    [st |-> st, err |-> err, field |-> field, calls |-> calls, rnd |-> rnd]

NoIntoResult == IntoResult("none", "none", NilField, <<>>, 0)

\* a codecFunc: the method value c.Encrypt or c.Decrypt, bound to its
\* receiver (rand is what rand.Reader does when the method reads it)
CodecFunc(method, recv, rand) == [method |-> method, recv |-> recv, rand |-> rand]

\* f(value)
CallCodec(f, value) ==
    IF f.method = "Encrypt" THEN Encrypt(f.recv, value, f.rand)
    ELSE Decrypt(f.recv, value)

\* into without the test for the empty string
intoWithoutEmptyCheck(f, s) ==
    IF s.isNil
    THEN IntoResult("ok", "none", s, <<>>, 0)
    ELSE LET d == CallCodec(f, s.val)
         IN  IF d.st = "ok"
             THEN IntoResult("ok", "none", Field(FALSE, d.out), d.calls, d.rnd)
             ELSE IntoResult(d.st, d.err, s, d.calls, d.rnd)

into(f, s) ==
    IF s.isNil \/ s.val = <<>>
    THEN IntoResult("ok", "none", s, <<>>, 0)
    ELSE LET d == CallCodec(f, s.val)
         IN  IF d.st = "ok"
             THEN IntoResult("ok", "none", Field(FALSE, d.out), d.calls, d.rnd)
             ELSE IntoResult(d.st, d.err, s, d.calls, d.rnd)

\* the DefaultCipher embedded in every cipher struct
EmbeddedDefault(c) == Instance("Default", <<>>, "none")

\* EncryptInto and DecryptInto are methods of DefaultCipher, promoted to the
\* structs that embed it: their receiver c is the embedded *DefaultCipher,
\* so the method values c.Encrypt and c.Decrypt are DefaultCipher's own
EncryptInto(c, s, rand) == into(CodecFunc("Encrypt", EmbeddedDefault(c), rand), s)

DecryptInto(c, s, rand) == into(CodecFunc("Decrypt", EmbeddedDefault(c), rand), s)

\* ------------------------------------------------------------ constructors
CtorResult(st, err, inst, calls) ==
    [st |-> st, err |-> err, inst |-> inst, calls |-> calls]

NoCtorResult == CtorResult("none", "none", NoInstance, <<>>)

\* aes.NewCipher: KeySizeError unless the key has 16, 24 or 32 bytes
NewCFBCipher(secret) ==
    IF ~ValidKey(secret)
    THEN CtorResult("error", "KeySetupError", NoInstance, <<<<"NewCFBCipher", secret>>>>)
    ELSE CtorResult("ok", "none", Instance("CFB", secret, "none"),
                    <<<<"NewCFBCipher", secret>>>>)

NewGCMCipher(secret) ==
    IF ~ValidKey(secret)
    THEN CtorResult("error", "KeySetupError", NoInstance, <<<<"NewGCMCipher", secret>>>>)
    ELSE CtorResult("ok", "none", Instance("GCM", secret, "none"),
                    <<<<"NewGCMCipher", secret>>>>)

\* a factory returning &DefaultCipher{}, which ignores the secret
NewDefaultCipher(secret) ==
    CtorResult("ok", "none", Instance("Default", <<>>, "none"),
               <<<<"NewDefaultCipher", secret>>>>)

\* a call of a factory value func([]byte) (Cipher, error)
CallFactory(factory, secret) ==
    CASE factory = "NewCFBCipher" -> NewCFBCipher(secret)
      [] factory = "NewGCMCipher" -> NewGCMCipher(secret)
      [] OTHER                    -> NewDefaultCipher(secret)

\* NewBase64Cipher dropping the error of the factory
NewBase64CipherIgnoringError(initCipher, secret) ==
    LET r == CallFactory(initCipher, secret)
    IN  CtorResult("ok", "none", Instance("Base64", r.inst.key, r.inst.kind), r.calls)

NewBase64Cipher(initCipher, secret) ==
    LET r == CallFactory(initCipher, secret)
    IN  IF r.st # "ok"
        THEN CtorResult(r.st, r.err, NoInstance, r.calls)
        ELSE CtorResult("ok", "none", Instance("Base64", r.inst.key, r.inst.kind), r.calls)

\* ---------------------------------------------------------------- inputs
\* "hello world"
HelloWorld == <<104, 101, 108, 108, 111, 32, 119, 111, 114, 108, 100>>

\* a plaintext of one block and one byte
LongText == [i \in 1..(BlockSize + 1) |-> 96 + i]

SampleBytes == {0, 255}

RECURSIVE SeqsUpTo(_)
SeqsUpTo(n) ==
    IF n = 0 THEN {<<>>}
    ELSE LET shorter == SeqsUpTo(n - 1)
         IN  shorter \cup {Append(q, b) : q \in {t \in shorter : Len(t) = n - 1},
                                          b \in SampleBytes}

Plaintexts == SeqsUpTo(MaxLen) \cup {HelloWorld, LongText}

\* what rand.Reader may do: fail, or fill the buffer
RandBytes(seed) == [i \in 1..BlockSize |-> (seed * 151 + i * 29) % ByteMod]

Rands == {[ok |-> FALSE, bytes |-> <<>>]}
         \cup {[ok |-> TRUE, bytes |-> RandBytes(seed)] : seed \in 0..MaxSeed}

SecretLens == {15, 16, 32}

\* the secret of n bytes: 32 zero bytes, or a pattern
Secret(n) == IF n = 32 THEN Zeros(n) ELSE [i \in 1..n |-> (i * 13 + n) % ByteMod]

Factories == {"NewCFBCipher", "NewGCMCipher", "NewDefaultCipher"}

Constructors == Factories \cup {"NewBase64Cipher"}

\* the string fields handed to EncryptInto and DecryptInto
Fields == {NilField, Field(FALSE, <<>>), Field(FALSE, <<104>>), Field(FALSE, HelloWorld)}

\* x with bit number bit of byte pos inverted
FlipBit(x, pos, bit) ==
    [x EXCEPT ![pos] = IF (x[pos] \div Pow2(bit)) % 2 = 1
                       THEN x[pos] - Pow2(bit) ELSE x[pos] + Pow2(bit)]

\* the cipher's binary ciphertext inside the caller's buffer, and back
RawOf(c, b) == IF c.kind = "Base64" THEN StdDecode(b).out ELSE b

TextOf(c, raw) == IF c.kind = "Base64" THEN StdEncode(raw) ELSE raw

\* the binary cipher that produced the ciphertext
Binary(c) == IF c.kind = "Base64" THEN InnerCipher(c) ELSE c

\* ----------------------------------------------------------------- state
VARIABLES
    pc,       \* where the caller is
    ctor,     \* result of the constructor call
    inst,     \* the Cipher Instance
    pt,       \* the plaintext handed to Encrypt
    rand,     \* what rand.Reader did in Encrypt
    enc,      \* result of Encrypt
    buf,      \* the caller's ciphertext buffer
    input,    \* the buffer as handed to the first Decrypt
    how,      \* how the buffer was changed before Decrypt, and where
    first,    \* result of the first Decrypt of the buffer
    last,     \* result of the latest Decrypt of the buffer
    field,    \* the string field as handed to EncryptInto / DecryptInto
    res,      \* result of EncryptInto / DecryptInto
    args      \* the arguments of the constructor call

vars == <<pc, ctor, inst, pt, rand, enc, buf, input, how, first, last, field, res, args>>

Args(constructor, initCipher, secret) ==
    [constructor |-> constructor, initCipher |-> initCipher, secret |-> secret]

How(kind, pos, bit) == [kind |-> kind, pos |-> pos, bit |-> bit]

Init ==
    /\ pc = "start"
    /\ ctor = NoCtorResult
    /\ inst = NoInstance
    /\ pt = <<>>
    /\ rand = [ok |-> FALSE, bytes |-> <<>>]
    /\ enc = NoResult
    /\ buf = <<>>
    /\ input = <<>>
    /\ how = How("none", 0, 0)
    /\ first = NoResult
    /\ last = NoResult
    /\ field = NilField
    /\ res = NoIntoResult
    /\ args = Args("none", "none", <<>>)

\* the caller constructs a cipher
New(constructor, initCipher, secret) ==
    /\ pc = "start"
    /\ args' = Args(constructor, IF constructor = "NewBase64Cipher" THEN initCipher ELSE "none",
                    secret)
    /\ ctor' = IF constructor = "NewBase64Cipher"
               THEN NewBase64Cipher(initCipher, secret)
               ELSE CallFactory(constructor, secret)
    /\ inst' = ctor'.inst
    /\ pc' = IF ctor'.st = "ok" THEN "ready" ELSE "failed"
    /\ UNCHANGED <<pt, rand, enc, buf, input, how, first, last, field, res>>

\* ciphertext, err := c.Encrypt(p)
DoEncrypt(p, r) ==
    /\ pc = "ready"
    /\ pt' = p
    /\ rand' = r
    /\ enc' = Encrypt(inst, p, r)
    /\ buf' = enc'.out
    /\ pc' = IF enc'.st = "ok" THEN "encrypted" ELSE "encryptFailed"
    /\ UNCHANGED <<ctor, inst, input, how, first, last, field, res, args>>

\* one bit of the binary ciphertext is inverted
Tamper ==
    /\ pc = "encrypted"
    /\ \E raw \in {RawOf(inst, buf)} :
       \E pos \in 1..Len(raw), bit \in 0..(ByteBits - 1) :
          /\ buf' = TextOf(inst, FlipBit(raw, pos, bit))
          /\ how' = How("tampered", pos, bit)
    /\ pc' = "changed"
    /\ UNCHANGED <<ctor, inst, pt, rand, enc, input, first, last, field, res, args>>

\* the binary ciphertext is cut to its first n bytes
Truncate ==
    /\ pc = "encrypted"
    /\ \E raw \in {RawOf(inst, buf)} :
       \E n \in 0..(Len(raw) - 1) :
          /\ buf' = TextOf(inst, SubSeq(raw, 1, n))
          /\ how' = How("truncated", n, 0)
    /\ pc' = "changed"
    /\ UNCHANGED <<ctor, inst, pt, rand, enc, input, first, last, field, res, args>>

\* the encoded text is damaged: its last character dropped, a character
\* outside the alphabet ('!') put in place of one, or a line break inserted
Garble ==
    /\ pc = "encrypted"
    /\ inst.kind = "Base64"
    /\ \E g \in {"drop", "bang", "newline"}, pos \in 1..Min(3, Len(buf)) :
          /\ buf' = CASE g = "drop"  -> SubSeq(buf, 1, Len(buf) - 1)
                      [] g = "bang"  -> [buf EXCEPT ![pos] = 33]
                      [] OTHER       -> SubSeq(buf, 1, pos) \o <<NewLine>> \o Tail0(buf, pos)
          /\ how' = How(g, pos, 0)
    /\ pc' = "changed"
    /\ UNCHANGED <<ctor, inst, pt, rand, enc, input, first, last, field, res, args>>

\* plaintext, err := c.Decrypt(buf)
DoDecrypt ==
    /\ pc \in {"encrypted", "changed"}
    /\ input' = buf
    /\ first' = Decrypt(inst, buf)
    /\ last' = first'
    /\ buf' = first'.inAfter
    /\ pc' = "decrypted"
    /\ UNCHANGED <<ctor, inst, pt, rand, enc, how, field, res, args>>

\* a second c.Decrypt(buf) of the same buffer
DoDecryptAgain ==
    /\ pc = "decrypted"
    /\ how.kind = "none"
    /\ first.st = "ok"
    /\ last' = Decrypt(inst, buf)
    /\ buf' = last'.inAfter
    /\ pc' = "decryptedAgain"
    /\ UNCHANGED <<ctor, inst, pt, rand, enc, input, how, first, field, res, args>>

\* err := c.EncryptInto(s)
DoEncryptInto(s, r) ==
    /\ pc = "ready"
    /\ field' = s
    /\ rand' = r
    /\ res' = EncryptInto(inst, s, r)
    /\ pc' = "encryptedInto"
    /\ UNCHANGED <<ctor, inst, pt, enc, buf, input, how, first, last, args>>

\* err := c.DecryptInto(s), of a chosen field or of one holding the
\* ciphertext of Encrypt
DoDecryptInto(s) ==
    /\ \/ pc = "ready" /\ s \in Fields
       \/ pc = "encrypted" /\ s = Field(FALSE, buf)
    /\ field' = s
    /\ res' = DecryptInto(inst, s, rand)
    /\ pc' = "decryptedInto"
    /\ UNCHANGED <<ctor, inst, pt, rand, enc, buf, input, how, first, last, args>>

Next ==
    \/ \E constructor \in Constructors, initCipher \in Factories, n \in SecretLens :
           New(constructor, initCipher, Secret(n))
    \/ \E p \in Plaintexts, r \in Rands : DoEncrypt(p, r)
    \/ Tamper
    \/ Truncate
    \/ Garble
    \/ DoDecrypt
    \/ DoDecryptAgain
    \/ \E s \in Fields, r \in Rands : DoEncryptInto(s, r)
    \/ \E s \in Fields : DoDecryptInto(s)
    \/ DoDecryptInto(Field(FALSE, buf))

Spec == Init /\ [][Next]_vars

\* construction alone, over every secret length up to MaxSecretLen
NextNew ==
    \E constructor \in Constructors, initCipher \in Factories, n \in 0..MaxSecretLen :
        New(constructor, initCipher, Secret(n))

SpecNew == Init /\ [][NextNew]_vars

\* ================================================================ properties
\* the Encrypt / Decrypt methods a cipher struct defines itself
Overrides(c) == c.kind \in {"CFB", "GCM", "Base64"}

EmptyField(s) == s.isNil \/ s.val = <<>>

\* the bytes a variant's Decrypt needs before the body
HeaderLen(c) == IF c.kind = "CFB" THEN BlockSize ELSE NonceSize

\* the IV or nonce drawn in Encrypt
Drawn(n) == SubSeq(rand.bytes, 1, n)

\* the standard alphabet, written out
StdAlphabet ==
    [i \in 1..26 |-> 64 + i] \o [i \in 1..26 |-> 96 + i] \o [i \in 1..10 |-> 47 + i]
    \o <<43, 47>>

\* the six-bit value each byte stands for in the alphabet, -1 for a byte
\* outside it
SextetOf ==
    [ch \in 0..(ByteMod - 1) |->
        IF \E v \in 1..64 : StdAlphabet[v] = ch
        THEN (CHOOSE v \in 1..64 : StdAlphabet[v] = ch) - 1
        ELSE -1]

InAlphabet(ch) == SextetOf[ch] >= 0

\* the six-bit value a character stands for; padding counts as 0
Sextet(ch) == IF ch = PadChar THEN 0 ELSE SextetOf[ch]

\* text is the standard padded base64 text of raw: four characters for each
\* three bytes, the same number read in base 64 and in base 256, and '='
\* exactly where the last group has no byte
IsStdBase64Of(text, raw) ==
    /\ Len(text) = 4 * ((Len(raw) + 2) \div 3)
    /\ \A g \in 0..((Len(text) \div 4) - 1) :
          LET ch(k) == text[4 * g + k]
              byte(i) == IF 3 * g + i <= Len(raw) THEN raw[3 * g + i] ELSE 0
              bytes == Min(3, Len(raw) - 3 * g)
          IN  /\ InAlphabet(ch(1)) /\ InAlphabet(ch(2))
              /\ IF bytes >= 2 THEN InAlphabet(ch(3)) ELSE ch(3) = PadChar
              /\ IF bytes = 3 THEN InAlphabet(ch(4)) ELSE ch(4) = PadChar
              /\ Sextet(ch(1)) * 262144 + Sextet(ch(2)) * 4096
                 + Sextet(ch(3)) * 64 + Sextet(ch(4))
                 = byte(1) * 65536 + byte(2) * 256 + byte(3)

\* text is valid standard padded base64: line breaks aside, a multiple of
\* four characters of the alphabet, with '=' only as the last or the last two
IsStdText(text) ==
    LET t == SelectSeq(text, LAMBDA ch : ch \notin {NewLine, CarriageReturn})
        n == Len(t)
    IN  /\ n % 4 = 0
        /\ \A i \in 1..n :
              \/ InAlphabet(t[i])
              \/ t[i] = PadChar /\ (i = n \/ (i = n - 1 /\ t[n] = PadChar))

\* the name of the Decrypt method of the inner cipher
InnerDecryptName(c) ==
    CASE c.inner = "CFB" -> "CFBCipher.Decrypt"
      [] c.inner = "GCM" -> "GCMCipher.Decrypt"
      [] OTHER           -> "DefaultCipher.Decrypt"

\* C1: for a cipher that overrides Encrypt/Decrypt, EncryptInto on a
\* non-empty field runs the cipher's own Encrypt and stores its result in the
\* field, and DecryptInto runs the cipher's own Decrypt; the base identity
\* methods of the embedded DefaultCipher are never the ones called.
C1_IntoDispatchesToOverride ==
    /\ (pc = "encryptedInto" /\ Overrides(inst) /\ ~EmptyField(field)) =>
          LET e == Encrypt(inst, field.val, rand)
          IN  /\ res.calls = e.calls
              /\ res.st = e.st
              /\ e.st = "ok" => res.field = Field(FALSE, e.out)
    /\ (pc = "decryptedInto" /\ Overrides(inst) /\ ~EmptyField(field)) =>
          LET d == Decrypt(inst, field.val)
          IN  /\ res.calls = d.calls
              /\ res.st = d.st
              /\ d.st = "ok" => res.field = Field(FALSE, d.out)

\* C2: round trip.  For every constructed cipher, every plaintext (the
\* empty one too) and every IV or nonce the random source returns, Encrypt
\* succeeds, and Decrypt of its output succeeds and returns the plaintext.
C2_RoundTrip ==
    /\ (enc.st # "none" /\ rand.ok) => enc.st = "ok"
    /\ (pc = "decrypted" /\ how.kind = "none") =>
          /\ first.st = "ok"
          /\ first.out = pt

C2_Witness ==
    /\ pc = "decrypted" /\ how.kind = "none"
    /\ inst.kind = "Base64" /\ inst.inner = "CFB"
    /\ pt = LongText
    /\ first.st = "ok" /\ first.out = LongText

\* C3: Decrypt of an input shorter than the header of the variant (16 bytes
\* for CFB, 12 for GCM), the empty input included, returns a
\* MalformedCiphertextError and no plaintext: no panic, no success.
C3_ShortInputRejected ==
    (pc = "decrypted" /\ inst.kind \in {"CFB", "GCM"} /\ Len(input) < HeaderLen(inst)) =>
        /\ first.st = "error"
        /\ first.err = "MalformedCiphertextError"
        /\ ~first.hasOut

\* C4: Encrypt and Decrypt leave the bytes of their input buffer as they
\* were and return storage that is not shared with it, so that a second
\* Decrypt of the same buffer returns the plaintext of the first.
C4_InputUntouched ==
    /\ enc.st # "none" => (enc.inAfter = pt /\ ~enc.shared)
    /\ pc = "decrypted" => (buf = input /\ ~first.shared)
    /\ pc = "decryptedAgain" => (last.st = "ok" /\ last.out = first.out)

\* C5: tamper detection of GCM.  With any single bit of a ciphertext of
\* Encrypt inverted (in the nonce, the sealed body or the tag), Decrypt fails
\* with an AuthenticationError and returns no plaintext, also when the
\* tampered ciphertext is base64 encoded and decrypted through the wrapper.
C5_TamperDetected ==
    (pc = "decrypted" /\ how.kind = "tampered" /\ Binary(inst).kind = "GCM") =>
        /\ first.st = "error"
        /\ first.err = "AuthenticationError"
        /\ ~first.hasOut
        /\ first.out = <<>>

C5_Witness ==
    /\ pc = "decrypted" /\ how.kind = "tampered"
    /\ inst.kind = "GCM"
    /\ pt = HelloWorld
    /\ how.pos = NonceSize + Len(HelloWorld) + TagSize /\ how.bit = 0
    /\ first.err = "AuthenticationError"

\* C6: EncryptInto and DecryptInto of a nil field or of a field holding the
\* empty string return success, leave the field as it was, call neither
\* Encrypt nor Decrypt and read no randomness.
C6_EmptyFieldNoOp ==
    (pc \in {"encryptedInto", "decryptedInto"} /\ EmptyField(field)) =>
        /\ res.st = "ok"
        /\ res.field = field
        /\ res.calls = <<>>
        /\ res.rnd = 0

C6_Witness ==
    /\ pc = "encryptedInto"
    /\ inst.kind = "GCM"
    /\ field = Field(FALSE, <<>>)
    /\ res.st = "ok" /\ res.field = field

\* C7: Base64Cipher.Decrypt decodes first.  Input that is not valid base64
\* fails with a MalformedCiphertextError and the inner Decrypt is not called;
\* otherwise the inner Decrypt is called once, on the decoded bytes, and its
\* result is returned as it is, the AuthenticationError of GCM included.
C7_DecodeThenDelegate ==
    (pc = "decrypted" /\ inst.kind = "Base64") =>
        IF ~IsStdText(input)
        THEN /\ first.st = "error"
             /\ first.err = "MalformedCiphertextError"
             /\ ~first.hasOut
             /\ first.calls = <<"Base64Cipher.Decrypt">>
        ELSE LET decoded == StdDecode(input).out
                 r == Decrypt(InnerCipher(inst), decoded)
             IN  /\ IsStdBase64Of(SkipNewlines(input), decoded)
                 /\ first.calls = <<"Base64Cipher.Decrypt", InnerDecryptName(inst)>>
                 /\ first.st = r.st
                 /\ first.err = r.err
                 /\ first.out = r.out
                 /\ first.hasOut = r.hasOut

C7_Witness ==
    /\ pc = "decrypted" /\ how.kind = "tampered"
    /\ inst.kind = "Base64" /\ inst.inner = "GCM"
    /\ IsStdText(input)
    /\ first.calls = <<"Base64Cipher.Decrypt", "GCMCipher.Decrypt">>
    /\ first.err = "AuthenticationError"

\* C8: ciphertext layout.  Encrypt returns the plaintext itself for the
\* DefaultCipher; 16 + len(p) bytes that start with the IV drawn for CFB;
\* 12 + len(p) + 16 bytes that start with the nonce drawn for GCM (39 bytes
\* for "hello world"); and for the wrapper the standard padded base64 text of
\* the whole ciphertext of the inner cipher.
C8_Layout ==
    (pc = "encrypted") =>
        LET raw == IF inst.kind = "Base64"
                   THEN Encrypt(InnerCipher(inst), pt, rand).out ELSE enc.out
            b   == Binary(inst)
        IN  /\ inst.kind = "Base64" => IsStdBase64Of(enc.out, raw)
            /\ b.kind = "Default" => raw = pt
            /\ b.kind = "CFB" =>
                  /\ Len(raw) = BlockSize + Len(pt)
                  /\ SubSeq(raw, 1, BlockSize) = Drawn(BlockSize)
            /\ b.kind = "GCM" =>
                  /\ Len(raw) = NonceSize + Len(pt) + TagSize
                  /\ SubSeq(raw, 1, NonceSize) = Drawn(NonceSize)
                  /\ pt = HelloWorld => Len(raw) = 39

C8_Witness ==
    /\ pc = "encrypted"
    /\ inst.kind = "GCM"
    /\ pt = HelloWorld
    /\ Len(enc.out) = 39
    /\ SubSeq(enc.out, 1, NonceSize) = Drawn(NonceSize)

\* C9: construction.  NewCFBCipher and NewGCMCipher return a KeySetupError
\* and no instance exactly when the secret has not 16, 24 or 32 bytes, and an
\* instance otherwise; NewBase64Cipher calls the factory once with the
\* secret, returns its error and no instance when it fails, and otherwise a
\* wrapper of the instance the factory made.
C9_Construction ==
    (pc # "start") =>
        LET factory == IF args.constructor = "NewBase64Cipher"
                       THEN args.initCipher ELSE args.constructor
            keyed   == factory \in {"NewCFBCipher", "NewGCMCipher"}
            kind    == CASE factory = "NewCFBCipher" -> "CFB"
                         [] factory = "NewGCMCipher" -> "GCM"
                         [] OTHER -> "Default"
            fails   == keyed /\ Len(args.secret) \notin {16, 24, 32}
        IN  /\ ctor.calls = <<<<factory, args.secret>>>>
            /\ fails => /\ ctor.st = "error"
                        /\ ctor.err = "KeySetupError"
                        /\ inst = NoInstance
            /\ ~fails => /\ ctor.st = "ok"
                         /\ ctor.err = "none"
                         /\ Binary(inst).kind = kind
                         /\ keyed => inst.key = args.secret
                         /\ inst.kind = IF args.constructor = "NewBase64Cipher"
                                        THEN "Base64" ELSE kind

C9_Witness ==
    /\ pc = "failed"
    /\ args.constructor = "NewBase64Cipher" /\ args.initCipher = "NewGCMCipher"
    /\ Len(args.secret) = 17
    /\ ctor.err = "KeySetupError"
    /\ inst = NoInstance

\* C10, as stated: with any single bit of a CFB ciphertext inverted, in the
\* IV or in the stream body, Decrypt succeeds and returns a plaintext other
\* than the one encrypted, for every plaintext, the empty one included.
C10_AnyFlipCorrupts ==
    (pc = "decrypted" /\ how.kind = "tampered" /\ inst.kind = "CFB") =>
        /\ first.st = "ok"
        /\ first.out # pt

\* C10, amended: with any single bit of a CFB ciphertext inverted, Decrypt
\* succeeds and returns as many bytes as the plaintext had; the bytes differ
\* from the plaintext when the bit is in the stream body, or in the IV of a
\* plaintext of at least one block.  (The ciphertext of the empty plaintext
\* is the IV alone, and Decrypt returns the empty plaintext again.)
C10_FlipCorruptsBody ==
    (pc = "decrypted" /\ how.kind = "tampered" /\ inst.kind = "CFB") =>
        /\ first.st = "ok"
        /\ Len(first.out) = Len(pt)
        /\ how.pos > BlockSize => first.out # pt
        /\ Len(pt) >= BlockSize => first.out # pt
        /\ pt = <<>> => first.out = pt

C10_Witness ==
    /\ pc = "decrypted" /\ how.kind = "tampered"
    /\ inst.kind = "CFB"
    /\ pt = HelloWorld
    /\ how.pos = BlockSize + 1
    /\ first.st = "ok" /\ first.out # HelloWorld

====
